---- MODULE Spec2Model ----
(***************************************************************************)
(* Model of HelloOpenCL/main.c: the host program (main, validate,          *)
(* getBundleResourcePath) as a sequence of steps, one per block of main,   *)
(* and the compute device that runs the commands of the command queue.     *)
(*                                                                         *)
(* A float is modelled by the integer it holds (every float of this        *)
(* program holds a non-negative integer); FloatRound rounds an integer to  *)
(* the nearest 32-bit float.                                               *)
(*                                                                         *)
(* The calls whose result main checks may fail, with any error code of     *)
(* FailCodes.  The calls whose result main does not look at (malloc, free, *)
(* clGetDeviceInfo, clGetProgramBuildInfo, the releases) do what they are  *)
(* asked to.  The OpenCL compiler is outside the program: whether it       *)
(* accepts the text it is handed, and how the kernel it builds behaves,    *)
(* are inputs of the model.                                                *)
(***************************************************************************)
EXTENDS Integers, Sequences, FiniteSets, TLC

VARIABLES
  pc,             \* the position of main
  err,            \* cl_int err
  exit_status,    \* the value main returned (NoExit while running)
  failed,         \* the step whose failure ended the run ("none" if none)
  device,         \* cl_device_id device: "none", "gpu" or "cpu"
  kernel_source,  \* char* kernel_source
  program_source, \* the text clCreateProgramWithSource was handed
  kernel_faults,  \* the indices at which the built kernel writes a wrong value
  test_in,        \* float* test_in  (host)
  test_out,       \* float* test_out (host)
  mem_in,         \* cl_mem mem_in   (device memory)
  mem_out,        \* cl_mem mem_out  (device memory)
  created,        \* per compute resource: the number of successful creations
  released,       \* per compute resource: the number of clRelease* calls
  heap,           \* per host heap block: [allocs, frees]
  trace,          \* the calls, prints, releases and frees of main, in order
  report,         \* what validate printed and returned
  cmdq,           \* the commands enqueued on the command queue, in order
  status,         \* per command: "none", "queued", "running", "complete"
  groups_done,    \* the work-groups of the kernel that have run
  xfer_done       \* the chunks of the read-back that have been copied

vars == <<pc, err, exit_status, failed, device, kernel_source, program_source,
          kernel_faults, test_in, test_out, mem_in, mem_out, created, released,
          heap, trace, report, cmdq, status, groups_done, xfer_done>>

----------------------------------------------------------------------------
(* Constants of the program and bounds of the model *)

NUM_VALUES == 1024

CL_SUCCESS == 0

\* the number of work-groups the implementation splits the range into
NumGroups == 2

\* the number of indices, counted down from NUM_VALUES - 1, at which a
\* misbehaving kernel may write a wrong value (index 0 is always one)
MaxFaultSites == 2

Indices == 0 .. (NUM_VALUES - 1)

\* error codes an OpenCL call may return: CL_OUT_OF_RESOURCES, CL_INVALID_VALUE
FailCodes == {-5, -30}

CLResults == {CL_SUCCESS} \cup FailCodes

\* what a block returned by malloc, or a fresh device buffer, may hold
GarbageValues == {0, 7}

FaultSites == {0} \cup {NUM_VALUES - k : k \in 1 .. MaxFaultSites}

Resources == {"context", "queue", "program", "kernel", "mem_in", "mem_out"}

Blocks == {"path", "log", "test_in", "test_out"}

Commands == {"kernel", "read"}

NoExit == -1

NoArray == [i \in {} |-> 0]

\* the kernel.cl resource of the bundle
KernelFile == "kernel.cl"

KernelPath == "/HelloOpenCL.app/Contents/Resources/kernel.cl"

KernelText == "__kernel void square(__global float* input, __global float* output)"

NoText == "NULL"

----------------------------------------------------------------------------
(* Arithmetic of the C types *)

\* the least e >= 0 with n < 2^(24+e): how many low bits a float drops
RECURSIVE FloatExp(_)
FloatExp(n) == IF n < 2^24 THEN 0 ELSE 1 + FloatExp(n \div 2)

\* n >= 0 rounded to the nearest 32-bit float (24-bit significand, ties to even)
FloatRound(n) ==
  LET e == FloatExp(n)
      u == 2^e
      q == n \div u
      r == n % u
  IN  IF e = 0 THEN n
      ELSE IF 2 * r > u \/ (2 * r = u /\ q % 2 = 1) THEN (q + 1) * u
      ELSE q * u

\* (float)i
IntToFloat(i) == FloatRound(i)

\* a * b on floats
FloatMul(a, b) == FloatRound(a * b)

\* a | b on two's-complement integers
RECURSIVE BitOr(_, _)
BitOr(a, b) ==
  IF a = 0 THEN b
  ELSE IF b = 0 THEN a
  ELSE IF a = -1 \/ b = -1 THEN -1
  ELSE 2 * BitOr(a \div 2, b \div 2)
       + (IF a % 2 = 1 \/ b % 2 = 1 THEN 1 ELSE 0)

----------------------------------------------------------------------------
(* validate: the loop of lines 42-49.  validateScan runs it over the       *)
(* indices lo .. hi-1: they are examined in increasing order and the scan  *)
(* returns at the first mismatch.  The range is split in two so that the   *)
(* evaluation nests log2(NUM_VALUES) deep rather than NUM_VALUES deep.     *)

NoIndex == -1

\* line 43
Mismatch(input, output, i) == output[i] # FloatMul(input[i], input[i])

RECURSIVE validateScan(_, _, _, _)
validateScan(input, output, lo, hi) ==
  IF hi - lo = 1
  THEN IF Mismatch(input, output, lo)
       THEN [ret |-> 0, index |-> lo, saw |-> output[lo],
             expected |-> FloatMul(input[lo], input[lo]), examined |-> lo + 1]
       ELSE [ret |-> 1, index |-> NoIndex, saw |-> 0, expected |-> 0,
             examined |-> hi]
  ELSE LET mid == lo + (hi - lo) \div 2
           first == validateScan(input, output, lo, mid)
       IN  IF first.ret = 0 THEN first
           ELSE validateScan(input, output, mid, hi)

\* validate with the loop running on after a mismatch: the last one is reported
validateLast(input, output) ==
  LET M == {i \in Indices : Mismatch(input, output, i)}
      last == CHOOSE i \in M : \A j \in M : j <= i
  IN  IF M = {} THEN validateScan(input, output, 0, NUM_VALUES)
      ELSE [ret |-> 0, index |-> last, saw |-> output[last],
            expected |-> FloatMul(input[last], input[last]),
            examined |-> NUM_VALUES]

validate(input, output) == validateScan(input, output, 0, NUM_VALUES)

NoReport == [ret |-> NoIndex, index |-> NoIndex, saw |-> 0, expected |-> 0,
             examined |-> 0]

----------------------------------------------------------------------------
(* getBundleResourcePath: the string returned and the heap events, given   *)
(* whether the bundle holds the resource and whether the URL converts to a *)
(* file-system path                                                        *)

getBundleResourcePath(filename, present, converts) ==
  IF ~(present /\ filename = KernelFile)
  THEN [ret |-> NoText, ev |-> <<>>]
  ELSE IF ~converts
  THEN [ret |-> NoText, ev |-> << <<"malloc", "path">>, <<"free", "path">> >>]
  ELSE [ret |-> KernelPath, ev |-> << <<"malloc", "path">> >>]

----------------------------------------------------------------------------
(* Events of main and their effect on the resource and heap tables *)

Count(ev, e) == Cardinality({k \in 1 .. Len(ev) : ev[k] = e})

Call(f) == <<"call", f>>
Fail(f) == <<"fail", f>>
Printf(m) == <<"print", m>>
Create(r) == <<"create", r>>
Release(r) == <<"release", r>>
Malloc(b) == <<"malloc", b>>
Free(b) == <<"free", b>>

\* main performs the events ev, in order
Emit(ev) ==
  /\ trace' = trace \o ev
  /\ created' = [r \in Resources |-> created[r] + Count(ev, Create(r))]
  /\ released' = [r \in Resources |-> released[r] + Count(ev, Release(r))]
  /\ heap' = [b \in Blocks |->
                [allocs |-> heap[b].allocs + Count(ev, Malloc(b)),
                 frees |-> heap[b].frees + Count(ev, Free(b))]]

\* return status from main after step has failed ("none": no step failed)
Return(step, code) ==
  /\ pc' = "done"
  /\ failed' = step
  /\ exit_status' = code

\* go on to the block at label
Goto(label) ==
  /\ pc' = label
  /\ UNCHANGED <<failed, exit_status>>

\* lines 96, 106-107, 115-116: the releases of the early error branches
ReleaseContext == << Release("context") >>

ReleaseQueueContext == << Release("queue"), Release("context") >>

\* lines 133-135 and 143-145
ReleaseProgramQueueContext ==
  << Release("program"), Release("queue"), Release("context") >>

\* BuildFailure with the program released before its log is fetched
BuildFailureReleaseFirst ==
  << Printf("Error building program"), Release("program"),
     Call("clGetProgramBuildInfo"), Malloc("log"),
     Call("clGetProgramBuildInfo"), Printf("Build log"), Free("log"),
     Release("queue"), Release("context") >>

\* lines 123-135: the branch taken when clBuildProgram fails
BuildFailure ==
  << Printf("Error building program"), Call("clGetProgramBuildInfo"),
     Malloc("log"), Call("clGetProgramBuildInfo"), Printf("Build log"),
     Free("log") >> \o ReleaseProgramQueueContext

\* Cleanup with the buffers released under the label as well
CleanupAlsoBuffers ==
  << Release("mem_in"), Release("mem_out"), Free("test_in"), Free("test_out"),
     Release("kernel"), Release("program"), Release("queue"),
     Release("context") >>

\* Cleanup with the releases in the order of creation
CleanupContextFirst ==
  << Free("test_in"), Free("test_out"), Release("context"), Release("queue"),
     Release("program"), Release("kernel") >>

\* lines 211-217: the cleanup label
Cleanup ==
  << Free("test_in"), Free("test_out"), Release("kernel"), Release("program"),
     Release("queue"), Release("context") >>

\* line 169
ReleaseIn == << Release("mem_in") >>

\* lines 178-179, 188-189, 197-198, 208-209
ReleaseInOut == << Release("mem_in"), Release("mem_out") >>

\* line 219: the status returned after the cleanup label
CleanupStatus == 0

\* the status of the return statements of lines 66-146
ErrorStatus == 1

host == <<pc, err, exit_status, failed, device, kernel_source, program_source,
          kernel_faults, test_in, test_out, mem_in, created, released, heap,
          trace, report>>

dev == <<mem_out, cmdq, status, groups_done, xfer_done>>

----------------------------------------------------------------------------
Init ==
  /\ pc = "platform"
  /\ err = CL_SUCCESS
  /\ exit_status = NoExit
  /\ failed = "none"
  /\ device = "none"
  /\ kernel_source = NoText
  /\ program_source = NoText
  /\ kernel_faults = {}
  /\ test_in = NoArray
  /\ test_out = NoArray
  /\ mem_in = NoArray
  /\ mem_out = NoArray
  /\ created = [r \in Resources |-> 0]
  /\ released = [r \in Resources |-> 0]
  /\ heap = [b \in Blocks |-> [allocs |-> 0, frees |-> 0]]
  /\ trace = <<>>
  /\ report = NoReport
  /\ cmdq = <<>>
  /\ status = [c \in Commands |-> "none"]
  /\ groups_done = {}
  /\ xfer_done = 0

\* lines 62-67
GetPlatform ==
  /\ pc = "platform"
  /\ \E e \in CLResults :
       /\ err' = e
       /\ IF e # CL_SUCCESS
          THEN /\ Emit(<< Call("clGetPlatformIDs"), Fail("clGetPlatformIDs"),
                          Printf("Error getting platform") >>)
               /\ Return("platform", ErrorStatus)
          ELSE /\ Emit(<< Call("clGetPlatformIDs") >>)
               /\ Goto("device")
  /\ UNCHANGED <<device, kernel_source, program_source, kernel_faults,
                 test_in, test_out, mem_in, report>>
  /\ UNCHANGED dev

\* lines 69-78
GetDevice ==
  /\ pc = "device"
  /\ \E gpu \in CLResults, cpu \in CLResults :
       IF gpu = CL_SUCCESS
       THEN /\ err' = gpu
            /\ device' = "gpu"
            /\ Emit(<< Call("clGetDeviceIDs(GPU)") >>)
            /\ Goto("device_info")
       ELSE /\ err' = cpu
            /\ IF cpu # CL_SUCCESS
               THEN /\ device' = device
                    /\ Emit(<< Call("clGetDeviceIDs(GPU)"),
                               Fail("clGetDeviceIDs(GPU)"),
                               Printf("No GPU found, trying CPU..."),
                               Call("clGetDeviceIDs(CPU)"),
                               Fail("clGetDeviceIDs(CPU)"),
                               Printf("No OpenCL devices found") >>)
                    /\ Return("device", ErrorStatus)
               ELSE /\ device' = "cpu"
                    /\ Emit(<< Call("clGetDeviceIDs(GPU)"),
                               Fail("clGetDeviceIDs(GPU)"),
                               Printf("No GPU found, trying CPU..."),
                               Call("clGetDeviceIDs(CPU)") >>)
                    /\ Goto("device_info")
  /\ UNCHANGED <<kernel_source, program_source, kernel_faults,
                 test_in, test_out, mem_in, report>>
  /\ UNCHANGED dev

\* lines 80-83
GetDeviceInfo ==
  /\ pc = "device_info"
  /\ Emit(<< Call("clGetDeviceInfo"), Printf("Using device") >>)
  /\ Goto("context")
  /\ UNCHANGED <<err, device, kernel_source, program_source, kernel_faults,
                 test_in, test_out, mem_in, report>>
  /\ UNCHANGED dev

\* lines 85-90
CreateContext ==
  /\ pc = "context"
  /\ \E e \in CLResults :
       /\ err' = e
       /\ IF e # CL_SUCCESS
          THEN /\ Emit(<< Call("clCreateContext"), Fail("clCreateContext"),
                          Printf("Error creating context") >>)
               /\ Return("context", ErrorStatus)
          ELSE /\ Emit(<< Call("clCreateContext"), Create("context") >>)
               /\ Goto("queue")
  /\ UNCHANGED <<device, kernel_source, program_source, kernel_faults,
                 test_in, test_out, mem_in, report>>
  /\ UNCHANGED dev

\* lines 92-98
CreateCommandQueue ==
  /\ pc = "queue"
  /\ \E e \in CLResults :
       /\ err' = e
       /\ IF e # CL_SUCCESS
          THEN /\ Emit(<< Call("clCreateCommandQueue"),
                          Fail("clCreateCommandQueue"),
                          Printf("Error creating command queue") >>
                       \o ReleaseContext)
               /\ Return("queue", ErrorStatus)
          ELSE /\ Emit(<< Call("clCreateCommandQueue"), Create("queue") >>)
               /\ Goto("source")
  /\ UNCHANGED <<device, kernel_source, program_source, kernel_faults,
                 test_in, test_out, mem_in, report>>
  /\ UNCHANGED dev

\* GetKernelSource without the test of line 104
GetKernelSourceUnchecked ==
  /\ pc = "source"
  /\ \E present \in BOOLEAN, converts \in BOOLEAN :
       LET r == getBundleResourcePath(KernelFile, present, converts)
       IN  /\ kernel_source' = r.ret
           /\ Emit(<< Call("getBundleResourcePath") >> \o r.ev
                   \o (IF r.ret = NoText
                       THEN << Fail("getBundleResourcePath") >> ELSE <<>>))
           /\ Goto("program")
  /\ UNCHANGED <<err, device, program_source, kernel_faults,
                 test_in, test_out, mem_in, report>>
  /\ UNCHANGED dev

\* lines 100-109
GetKernelSource ==
  /\ pc = "source"
  /\ \E present \in BOOLEAN, converts \in BOOLEAN :
       LET r == getBundleResourcePath(KernelFile, present, converts)
       IN  /\ kernel_source' = r.ret
           /\ IF r.ret = NoText
              THEN /\ Emit(<< Call("getBundleResourcePath") >> \o r.ev
                           \o << Fail("getBundleResourcePath"),
                                 Printf("Could not find kernel.cl in bundle") >>
                           \o ReleaseQueueContext)
                   /\ Return("source", ErrorStatus)
              ELSE /\ Emit(<< Call("getBundleResourcePath") >> \o r.ev)
                   /\ Goto("program")
  /\ UNCHANGED <<err, device, program_source, kernel_faults,
                 test_in, test_out, mem_in, report>>
  /\ UNCHANGED dev

\* lines 111-118: the program is created from the string kernel_source names
CreateProgram ==
  /\ pc = "program"
  /\ program_source' = kernel_source
  /\ \E e \in CLResults :
       /\ err' = e
       /\ IF e # CL_SUCCESS
          THEN /\ Emit(<< Call("clCreateProgramWithSource"),
                          Fail("clCreateProgramWithSource"),
                          Printf("Error creating program") >>
                       \o ReleaseQueueContext)
               /\ Return("program", ErrorStatus)
          ELSE /\ Emit(<< Call("clCreateProgramWithSource"),
                          Create("program") >>)
               /\ Goto("build")
  /\ UNCHANGED <<device, kernel_source, kernel_faults,
                 test_in, test_out, mem_in, report>>
  /\ UNCHANGED dev

\* lines 120-137: the compiler is outside the program; whether it accepts
\* the text, and how the kernel it builds behaves, are inputs
BuildProgram ==
  /\ pc = "build"
  /\ \E e \in CLResults, faults \in SUBSET FaultSites :
       /\ err' = e
       /\ IF e # CL_SUCCESS
          THEN /\ Emit(<< Call("clBuildProgram"), Fail("clBuildProgram") >>
                       \o BuildFailure)
               /\ Return("build", ErrorStatus)
               /\ kernel_faults' = kernel_faults
          ELSE /\ Emit(<< Call("clBuildProgram") >>)
               /\ Goto("kernel")
               /\ kernel_faults' = faults
  /\ UNCHANGED <<device, kernel_source, program_source,
                 test_in, test_out, mem_in, report>>
  /\ UNCHANGED dev

\* lines 139-147
CreateKernel ==
  /\ pc = "kernel"
  /\ \E e \in CLResults :
       /\ err' = e
       /\ IF e # CL_SUCCESS
          THEN /\ Emit(<< Call("clCreateKernel"), Fail("clCreateKernel"),
                          Printf("Error creating kernel") >>
                       \o ReleaseProgramQueueContext)
               /\ Return("kernel", ErrorStatus)
          ELSE /\ Emit(<< Call("clCreateKernel"), Create("kernel") >>)
               /\ Goto("data")
  /\ UNCHANGED <<device, kernel_source, program_source, kernel_faults,
                 test_in, test_out, mem_in, report>>
  /\ UNCHANGED dev

----------------------------------------------------------------------------
(* Data, buffers, dispatch and read-back *)

\* TestValue with the loop counting from 1
TestValueFromOne(i) == IntToFloat(i + 1)

\* line 154
TestValue(i) == IntToFloat(i)

\* lines 149-155: malloc leaves test_out with whatever the block held
CreateTestData ==
  /\ pc = "data"
  /\ test_in' = [i \in Indices |-> TestValue(i)]
  /\ \E g \in GarbageValues : test_out' = [i \in Indices |-> g]
  /\ Emit(<< Malloc("test_in"), Malloc("test_out") >>)
  /\ Goto("buf_in")
  /\ UNCHANGED <<err, device, kernel_source, program_source, kernel_faults,
                 mem_in, report>>
  /\ UNCHANGED dev

\* lines 157-163: CL_MEM_COPY_HOST_PTR copies test_in into the buffer
CreateInputBuffer ==
  /\ pc = "buf_in"
  /\ \E e \in CLResults :
       /\ err' = e
       /\ IF e # CL_SUCCESS
          THEN /\ Emit(<< Call("clCreateBuffer(in)"), Fail("clCreateBuffer(in)"),
                          Printf("Error creating input buffer") >> \o Cleanup)
               /\ Return("buf_in", CleanupStatus)
               /\ mem_in' = mem_in
          ELSE /\ Emit(<< Call("clCreateBuffer(in)"), Create("mem_in") >>)
               /\ Goto("buf_out")
               /\ mem_in' = test_in
  /\ UNCHANGED <<device, kernel_source, program_source, kernel_faults,
                 test_in, test_out, report>>
  /\ UNCHANGED dev

\* lines 165-171: the output buffer is created with no initial content
CreateOutputBuffer ==
  /\ pc = "buf_out"
  /\ \E e \in CLResults, g \in GarbageValues :
       /\ err' = e
       /\ IF e # CL_SUCCESS
          THEN /\ Emit(<< Call("clCreateBuffer(out)"),
                          Fail("clCreateBuffer(out)"),
                          Printf("Error creating output buffer") >>
                       \o ReleaseIn \o Cleanup)
               /\ Return("buf_out", CleanupStatus)
               /\ mem_out' = mem_out
          ELSE /\ Emit(<< Call("clCreateBuffer(out)"), Create("mem_out") >>)
               /\ Goto("args")
               /\ mem_out' = [i \in Indices |-> g]
  /\ UNCHANGED <<device, kernel_source, program_source, kernel_faults,
                 test_in, test_out, mem_in, report>>
  /\ UNCHANGED <<cmdq, status, groups_done, xfer_done>>

\* lines 173-181: both calls are made, their results or-ed into err
SetKernelArgs ==
  /\ pc = "args"
  /\ \E a0 \in CLResults, a1 \in CLResults :
       LET e == BitOr(a0, a1)
           calls == << Call("clSetKernelArg(0)") >>
                    \o (IF a0 # CL_SUCCESS THEN << Fail("clSetKernelArg(0)") >>
                        ELSE <<>>)
                    \o << Call("clSetKernelArg(1)") >>
                    \o (IF a1 # CL_SUCCESS THEN << Fail("clSetKernelArg(1)") >>
                        ELSE <<>>)
       IN  /\ err' = e
           /\ IF e # CL_SUCCESS
              THEN /\ Emit(calls
                           \o << Printf("Error setting kernel arguments") >>
                           \o ReleaseInOut \o Cleanup)
                   /\ Return("args", CleanupStatus)
              ELSE /\ Emit(calls)
                   /\ Goto("dispatch")
  /\ UNCHANGED <<device, kernel_source, program_source, kernel_faults,
                 test_in, test_out, mem_in, report>>
  /\ UNCHANGED dev

\* lines 183-191: the kernel is enqueued; the call does not wait for it
EnqueueKernel ==
  /\ pc = "dispatch"
  /\ \E e \in CLResults :
       /\ err' = e
       /\ IF e # CL_SUCCESS
          THEN /\ Emit(<< Call("clEnqueueNDRangeKernel"),
                          Fail("clEnqueueNDRangeKernel"),
                          Printf("Error executing kernel") >>
                       \o ReleaseInOut \o Cleanup)
               /\ Return("dispatch", CleanupStatus)
               /\ UNCHANGED <<cmdq, status>>
          ELSE /\ Emit(<< Call("clEnqueueNDRangeKernel") >>)
               /\ Goto("read")
               /\ cmdq' = Append(cmdq, "kernel")
               /\ status' = [status EXCEPT !["kernel"] = "queued"]
  /\ UNCHANGED <<device, kernel_source, program_source, kernel_faults,
                 test_in, test_out, mem_in, report>>
  /\ UNCHANGED <<mem_out, groups_done, xfer_done>>

\* line 93: the properties the command queue is created with
QueueProperties == 0

\* CL_QUEUE_OUT_OF_ORDER_EXEC_MODE_ENABLE is bit 0 of the properties
OutOfOrder == QueueProperties % 2 = 1

NonBlockingRead == FALSE

\* line 194: the blocking_read argument, CL_TRUE
BlockingRead == TRUE

\* lines 193-200, up to the point where the call waits
EnqueueRead ==
  /\ pc = "read"
  /\ \E e \in CLResults :
       /\ err' = e
       /\ IF e # CL_SUCCESS
          THEN /\ Emit(<< Call("clEnqueueReadBuffer"),
                          Fail("clEnqueueReadBuffer"),
                          Printf("Error reading results") >>
                       \o ReleaseInOut \o Cleanup)
               /\ Return("read", CleanupStatus)
               /\ UNCHANGED <<cmdq, status>>
          ELSE /\ Emit(<< Call("clEnqueueReadBuffer") >>)
               /\ Goto(IF BlockingRead THEN "read_wait" ELSE "validate")
               /\ cmdq' = Append(cmdq, "read")
               /\ status' = [status EXCEPT !["read"] = "queued"]
  /\ UNCHANGED <<device, kernel_source, program_source, kernel_faults,
                 test_in, test_out, mem_in, report>>
  /\ UNCHANGED <<mem_out, groups_done, xfer_done>>

\* line 194: a blocking read returns once the read command has completed
ReadReturn ==
  /\ pc = "read_wait"
  /\ status["read"] = "complete"
  /\ Goto("validate")
  /\ UNCHANGED <<err, device, kernel_source, program_source, kernel_faults,
                 test_in, test_out, mem_in, created, released, heap, trace,
                 report>>
  /\ UNCHANGED dev

\* lines 202-219
Validate ==
  /\ pc = "validate"
  /\ LET r == validate(test_in, test_out)
     IN  /\ report' = r
         /\ Emit(<< Call("validate") >>
                 \o (IF r.ret # 0
                     THEN << Printf("All values were properly squared!") >>
                     ELSE << Printf("Error: Element did not match expected output."),
                             Printf("Saw, expected") >>)
                 \o ReleaseInOut \o Cleanup)
  /\ Return("none", CleanupStatus)
  /\ UNCHANGED <<err, device, kernel_source, program_source, kernel_faults,
                 test_in, test_out, mem_in>>
  /\ UNCHANGED dev

----------------------------------------------------------------------------
(* The device: it runs the commands of the queue while the process lives *)

GroupSize == (NUM_VALUES + NumGroups - 1) \div NumGroups

GroupOf(i) == i \div GroupSize

Groups == {GroupOf(i) : i \in Indices}

\* kernel.cl, square: output[idx] = input[idx] * input[idx]
KernelSquare(x) == FloatMul(x, x)

\* what work-item i writes: a kernel that misbehaves at i writes another value
KernelWrite(i) ==
  IF i \in kernel_faults THEN KernelSquare(mem_in[i]) + 1
  ELSE KernelSquare(mem_in[i])

\* the commands enqueued before c
Before(c) == {cmdq[k] : k \in {j \in 1 .. Len(cmdq) : \E m \in (j + 1) .. Len(cmdq) : cmdq[m] = c}}

\* an in-order queue starts a command once every earlier one has completed
DeviceStart(c) ==
  /\ pc # "done"
  /\ status[c] = "queued"
  /\ OutOfOrder \/ \A b \in Before(c) : status[b] = "complete"
  /\ status' = [status EXCEPT ![c] = "running"]
  /\ UNCHANGED host
  /\ UNCHANGED <<mem_out, cmdq, groups_done, xfer_done>>

\* one work-group of the 1024 work-items runs
DeviceRunGroup(g) ==
  /\ pc # "done"
  /\ status["kernel"] = "running"
  /\ g \notin groups_done
  /\ mem_out' = [i \in Indices |-> IF GroupOf(i) = g THEN KernelWrite(i)
                                   ELSE mem_out[i]]
  /\ groups_done' = groups_done \cup {g}
  /\ status' = [status EXCEPT !["kernel"] =
                  IF groups_done' = Groups THEN "complete" ELSE "running"]
  /\ UNCHANGED host
  /\ UNCHANGED <<cmdq, xfer_done>>

\* one chunk of mem_out is copied into test_out
DeviceTransfer ==
  /\ pc # "done"
  /\ status["read"] = "running"
  /\ test_out' = [i \in Indices |-> IF GroupOf(i) = xfer_done THEN mem_out[i]
                                    ELSE test_out[i]]
  /\ xfer_done' = xfer_done + 1
  /\ status' = [status EXCEPT !["read"] =
                  IF xfer_done' = Cardinality(Groups) THEN "complete"
                  ELSE "running"]
  /\ UNCHANGED <<pc, err, exit_status, failed, device, kernel_source,
                 program_source, kernel_faults, test_in, mem_in, created,
                 released, heap, trace, report>>
  /\ UNCHANGED <<mem_out, cmdq, groups_done>>

----------------------------------------------------------------------------
Next ==
  \/ GetPlatform
  \/ GetDevice
  \/ GetDeviceInfo
  \/ CreateContext
  \/ CreateCommandQueue
  \/ GetKernelSource
  \/ CreateProgram
  \/ BuildProgram
  \/ CreateKernel
  \/ CreateTestData
  \/ CreateInputBuffer
  \/ CreateOutputBuffer
  \/ SetKernelArgs
  \/ EnqueueKernel
  \/ EnqueueRead
  \/ ReadReturn
  \/ Validate
  \/ \E c \in Commands : DeviceStart(c)
  \/ \E g \in Groups : DeviceRunGroup(g)
  \/ DeviceTransfer

Spec == Init /\ [][Next]_vars

----------------------------------------------------------------------------
(* Vocabulary of the properties *)

InTrace(e) == \E k \in 1 .. Len(trace) : trace[k] = e

\* the steps of main, in program order, and the calls each one makes
Steps == << "platform", "device", "context", "queue", "source", "program",
            "build", "kernel", "buf_in", "buf_out", "args", "dispatch",
            "read" >>

CallsOf(step) ==
  CASE step = "platform" -> {"clGetPlatformIDs"}
    [] step = "device" -> {"clGetDeviceIDs(GPU)", "clGetDeviceIDs(CPU)"}
    [] step = "context" -> {"clCreateContext"}
    [] step = "queue" -> {"clCreateCommandQueue"}
    [] step = "source" -> {"getBundleResourcePath"}
    [] step = "program" -> {"clCreateProgramWithSource"}
    [] step = "build" -> {"clBuildProgram"}
    [] step = "kernel" -> {"clCreateKernel"}
    [] step = "buf_in" -> {"clCreateBuffer(in)"}
    [] step = "buf_out" -> {"clCreateBuffer(out)"}
    [] step = "args" -> {"clSetKernelArg(0)", "clSetKernelArg(1)"}
    [] step = "dispatch" -> {"clEnqueueNDRangeKernel"}
    [] step = "read" -> {"clEnqueueReadBuffer"}

Attempted(step) == \E c \in CallsOf(step) : InTrace(Call(c))

\* the step failed: the device step fails when the CPU probe, its last, fails
StepFailed(step) ==
  IF step = "device" THEN InTrace(Fail("clGetDeviceIDs(CPU)"))
  ELSE \E c \in CallsOf(step) : InTrace(Fail(c))

\* the steps the first two claims call infrastructure steps
InfraSteps == {Steps[k] : k \in 1 .. Len(Steps)} \ {"source"}

Diagnostic(step) ==
  CASE step = "platform" -> "Error getting platform"
    [] step = "device" -> "No OpenCL devices found"
    [] step = "context" -> "Error creating context"
    [] step = "queue" -> "Error creating command queue"
    [] step = "source" -> "Could not find kernel.cl in bundle"
    [] step = "program" -> "Error creating program"
    [] step = "build" -> "Error building program"
    [] step = "kernel" -> "Error creating kernel"
    [] step = "buf_in" -> "Error creating input buffer"
    [] step = "buf_out" -> "Error creating output buffer"
    [] step = "args" -> "Error setting kernel arguments"
    [] step = "dispatch" -> "Error executing kernel"
    [] step = "read" -> "Error reading results"

\* the index in Steps of the step that makes the call e, 0 for another event
CallStep(e) ==
  IF e[1] = "call" /\ \E k \in 1 .. Len(Steps) : e[2] \in CallsOf(Steps[k])
  THEN CHOOSE k \in 1 .. Len(Steps) : e[2] \in CallsOf(Steps[k])
  ELSE 0

IsRelease(e) == e[1] = "release"

Validated == InTrace(Call("validate"))

SuccessMessage == Printf("All values were properly squared!")

MismatchMessage == Printf("Error: Element did not match expected output.")

----------------------------------------------------------------------------
(* C1: whenever an infrastructure step of main fails, the process prints a *)
(* diagnostic and exits with status 1, and exit status 0 is returned only  *)
(* by runs in which every step succeeded.                                  *)
C1_InfrastructureFailureExitsOne ==
  pc = "done" =>
    /\ \A s \in InfraSteps :
         StepFailed(s) => exit_status = 1 /\ InTrace(Printf(Diagnostic(s)))
    /\ exit_status = 0 => \A s \in InfraSteps : ~StepFailed(s)

(* C2: on every exit path each compute resource that was created is        *)
(* released exactly once before main returns; none is released twice, none *)
(* is left unreleased, none is released without having been created.       *)
C2_ReleasedExactlyOnce ==
  /\ \A r \in Resources : created[r] <= 1 /\ released[r] <= created[r]
  /\ \A k \in 1 .. Len(trace) :
       IsRelease(trace[k]) =>
         \E j \in 1 .. (k - 1) : trace[j] = Create(trace[k][2])
  /\ pc = "done" => \A r \in Resources : released[r] = created[r]

\* a run aborted by the read-back, with all six resources created
C2_Witness ==
  /\ pc = "done"
  /\ failed = "read"
  /\ \A r \in Resources : created[r] = 1

(* C3: in a run in which every step succeeds and the kernel behaves as its *)
(* interface says, validation starts with input[i] = i and                 *)
(* output[i] = input[i] * input[i] (the exact product) for every i, finds  *)
(* no mismatch and the success message is printed.                         *)
C3_SuccessfulRunSquares ==
  /\ (pc = "validate" /\ kernel_faults = {}) =>
       \A i \in Indices :
         test_in[i] = i /\ test_out[i] = test_in[i] * test_in[i]
  /\ (pc = "done" /\ Validated /\ kernel_faults = {}) =>
       /\ report.ret = 1
       /\ InTrace(SuccessMessage)
       /\ ~InTrace(MismatchMessage)

C3_Witness ==
  /\ pc = "done"
  /\ Validated
  /\ kernel_faults = {}
  /\ test_out[NUM_VALUES - 1] = (NUM_VALUES - 1) * (NUM_VALUES - 1)

(* C4: if the output array read back differs from input[i] * input[i] at   *)
(* some index, validate reports the smallest such index with the value     *)
(* seen and the value expected, examines no later index, the success       *)
(* message is not printed, and the run releases every resource and exits   *)
(* with status 0.                                                          *)
C4_FirstMismatchReported ==
  (pc = "done" /\ Validated) =>
    LET M == {i \in Indices : test_out[i] # FloatMul(test_in[i], test_in[i])}
    IN  M # {} =>
          /\ report.ret = 0
          /\ report.index \in M
          /\ \A j \in M : report.index <= j
          /\ report.saw = test_out[report.index]
          /\ report.expected = test_in[report.index] * test_in[report.index]
          /\ report.examined = report.index + 1
          /\ InTrace(MismatchMessage)
          /\ ~InTrace(SuccessMessage)
          /\ \A r \in Resources : created[r] = 1 /\ released[r] = 1
          /\ exit_status = 0

\* two indices mismatch and the smaller of them is not the first index
C4_Witness ==
  /\ pc = "done"
  /\ Validated
  /\ report.ret = 0
  /\ report.index > 0
  /\ Cardinality({i \in Indices :
                    test_out[i] # FloatMul(test_in[i], test_in[i])}) >= 2

(* C5: the text handed to program creation is the content of kernel.cl,    *)
(* not another string such as the resource's file-system path.             *)
C5_ProgramSourceIsKernelText ==
  Attempted("program") => program_source = KernelText

(* C6: the run is fail-fast in program order: a step is attempted only if  *)
(* every earlier step succeeded and no step is retried.  If both device    *)
(* probes fail the process prints the no-device diagnostic and exits 1     *)
(* with no context, queue or program work done; if the kernel source is    *)
(* missing it exits 1 after device, context and queue setup and before any *)
(* program creation or compilation.                                        *)
C6_FailFastInProgramOrder ==
  /\ \A j \in 1 .. Len(Steps), k \in 1 .. Len(Steps) :
       (j < k /\ Attempted(Steps[k])) =>
         Attempted(Steps[j]) /\ ~StepFailed(Steps[j])
  /\ \A s \in {Steps[k] : k \in 1 .. Len(Steps)} :
       /\ \A c \in CallsOf(s) : Count(trace, Call(c)) <= 1
       /\ StepFailed(s) => pc = "done"
  /\ LET at == [k \in 1 .. Len(trace) |-> CallStep(trace[k])]
     IN  \A p \in 1 .. Len(trace), q \in 1 .. Len(trace) :
           (p < q /\ at[p] # 0 /\ at[q] # 0) => at[p] <= at[q]
  /\ StepFailed("device") =>
       /\ exit_status = 1
       /\ InTrace(Printf("No OpenCL devices found"))
       /\ \A k \in 3 .. Len(Steps) : ~Attempted(Steps[k])
       /\ \A r \in Resources : created[r] = 0
  /\ StepFailed("source") =>
       /\ exit_status = 1
       /\ device # "none"
       /\ created["context"] = 1 /\ created["queue"] = 1
       /\ ~Attempted("program") /\ ~Attempted("build")
       /\ program_source = NoText /\ created["program"] = 0

\* the kernel source is missing: the run ends after the queue was created
C6_Witness ==
  /\ pc = "done"
  /\ StepFailed("source")
  /\ device = "cpu"
  /\ released["queue"] = 1

(* C7: if compilation fails, the build log is fetched and printed before   *)
(* any resource is released and before the process exits; the process then *)
(* exits with status 1 and never creates a kernel, allocates buffers or    *)
(* dispatches.                                                             *)
C7_BuildLogBeforeRelease ==
  StepFailed("build") =>
    /\ pc = "done" /\ exit_status = 1
    /\ \E f \in 1 .. Len(trace), p \in 1 .. Len(trace) :
         /\ f < p
         /\ trace[f] = Call("clGetProgramBuildInfo")
         /\ trace[p] = Printf("Build log")
         /\ \A k \in 1 .. Len(trace) : IsRelease(trace[k]) => p < k
    /\ \A k \in 8 .. Len(Steps) : ~Attempted(Steps[k])
    /\ created["kernel"] = 0 /\ created["mem_in"] = 0 /\ created["mem_out"] = 0
    /\ heap["test_in"].allocs = 0 /\ heap["test_out"].allocs = 0
    /\ cmdq = <<>>

C7_Witness ==
  /\ pc = "done"
  /\ StepFailed("build")
  /\ released["program"] = 1

\* the place of a resource in the order of release
ReleaseRank(r) ==
  CASE r \in {"mem_in", "mem_out"} -> 0
    [] r = "kernel" -> 1
    [] r = "program" -> 2
    [] r = "queue" -> 3
    [] r = "context" -> 4

(* C8: on every exit path reached after buffer creation was attempted, the *)
(* resources held are released in the order buffers, kernel, program,      *)
(* queue, context: no kernel, program, queue or context release precedes   *)
(* the release of a buffer, and the context is released last.              *)
C8_ReleaseOrder ==
  (pc = "done" /\ Attempted("buf_in")) =>
    LET rel == {k \in 1 .. Len(trace) : IsRelease(trace[k])}
    IN  /\ \A p \in rel, q \in rel :
             p < q =>
               \/ ReleaseRank(trace[p][2]) < ReleaseRank(trace[q][2])
               \/ ReleaseRank(trace[p][2]) = 0 /\ ReleaseRank(trace[q][2]) = 0
        /\ \A r \in {"kernel", "program", "queue", "context"} :
             InTrace(Release(r))
        /\ \A r \in {"mem_in", "mem_out"} :
             created[r] = 1 => InTrace(Release(r))
        /\ \A p \in rel : trace[p] # Release("context") =>
             \E q \in rel : p < q /\ trace[q] = Release("context")

\* an exit after both buffers were created and the dispatch failed
C8_Witness ==
  /\ pc = "done"
  /\ StepFailed("dispatch")
  /\ released["mem_in"] = 1 /\ released["mem_out"] = 1

(* C9: in every interleaving of host and device, the host starts           *)
(* validation only after the kernel has completed all its work-items and   *)
(* the transfer to the host has completed; the host never sees an output   *)
(* array that is partly written or not yet transferred.                    *)
C9_ValidateAfterKernelAndTransfer ==
  /\ (pc = "validate" \/ Validated) =>
       /\ status["kernel"] = "complete" /\ groups_done = Groups
       /\ status["read"] = "complete" /\ xfer_done = Cardinality(Groups)
       /\ \A i \in Indices : test_out[i] = KernelWrite(i)
  /\ status["read"] \in {"running", "complete"} =>
       status["kernel"] = "complete"

\* the host is about to validate; the device has run every group
C9_Witness ==
  /\ pc = "validate"
  /\ groups_done = Groups
  /\ status["read"] = "complete"

(* C10: every host heap block allocated during a run (the path string, the *)
(* build-log buffer, the input and the output array) is freed exactly once *)
(* before main returns.                                                    *)
C10_HeapFreedExactlyOnce ==
  /\ \A b \in Blocks : heap[b].frees <= heap[b].allocs
  /\ pc = "done" => \A b \in Blocks : heap[b].frees = heap[b].allocs

====
